---- MODULE Spec2Model ----
(***************************************************************************)
(* any-potd (src/any_potd.py): fetch one "photo of the day" from a         *)
(* provider and save it.  The module models retry_request,                 *)
(* detect_extension, download_and_save, the four provider adapters and     *)
(* main as a sequential state machine.  Text is kept as TLA+ strings and   *)
(* taken apart character by character with SubSeq, the way the Python       *)
(* string and path functions do.                                           *)
(***************************************************************************)
EXTENDS Integers, Sequences, FiniteSets, TLC

None == "<None>"

(***************************************************************************)
(* String helpers: the Python str / os.path / pathlib operations used.     *)
(***************************************************************************)
CharAt(s, i) == SubSeq(s, i, i)

\* Python slices, which clamp to the string: StrFrom keeps positions i.. and
\* StrUpto positions 1..i (1-based)
StrFrom(s, i) == IF i > Len(s) THEN "" ELSE SubSeq(s, IF i < 1 THEN 1 ELSE i, Len(s))

StrUpto(s, i) == IF i < 1 THEN "" ELSE SubSeq(s, 1, IF i > Len(s) THEN Len(s) ELSE i)

\* str.find(c) for a one-character c, searching positions >= from; 0 when absent
FindFrom(s, c, from) ==
    LET hits == {i \in from..Len(s) : CharAt(s, i) = c}
    IN  IF hits = {} THEN 0 ELSE CHOOSE i \in hits : \A j \in hits : i <= j

Find(s, c) == FindFrom(s, c, 1)

\* str.rfind(c) for a one-character c; 0 when absent
RFind(s, c) ==
    LET hits == {i \in 1..Len(s) : CharAt(s, i) = c}
    IN  IF hits = {} THEN 0 ELSE CHOOSE i \in hits : \A j \in hits : j <= i

\* sub in s
Contains(s, sub) ==
    \E i \in 1..(Len(s) - Len(sub) + 1) : SubSeq(s, i, i + Len(sub) - 1) = sub

UpperCase == <<"A", "B", "C", "D", "E", "F", "G", "H", "I", "J", "K", "L", "M",
               "N", "O", "P", "Q", "R", "S", "T", "U", "V", "W", "X", "Y", "Z">>

LowerCase == <<"a", "b", "c", "d", "e", "f", "g", "h", "i", "j", "k", "l", "m",
               "n", "o", "p", "q", "r", "s", "t", "u", "v", "w", "x", "y", "z">>

LowerChar(c) ==
    IF \E k \in 1..26 : UpperCase[k] = c
    THEN LowerCase[CHOOSE k \in 1..26 : UpperCase[k] = c]
    ELSE c

RECURSIVE Lower(_)
\* str.lower()
Lower(s) == IF Len(s) = 0 THEN "" ELSE LowerChar(CharAt(s, 1)) \o Lower(StrFrom(s, 2))

IsAlpha(c) == \E k \in 1..26 : UpperCase[k] = c \/ LowerCase[k] = c

IsSchemeChar(c) == IsAlpha(c) \/ c \in {"0", "1", "2", "3", "4", "5", "6", "7", "8", "9", "+", "-", "."}

\* variant: `x is None` in place of `not x`
FalsyNoneOnly(v) == v = None

\* Python truthiness of an optional string (`not x`): None and "" are falsy
Falsy(v) == v = None \/ v = ""

(***************************************************************************)
(* urllib.parse.urlparse(url).path                                         *)
(***************************************************************************)
\* the scheme prefix "scheme:" is split off when the text before the first
\* colon is a letter followed by scheme characters
SchemeEnd(url) ==
    LET i == Find(url, ":")
    IN  IF /\ i > 1
           /\ IsAlpha(CharAt(url, 1))
           /\ \A k \in 1..(i - 1) : IsSchemeChar(CharAt(url, k))
        THEN i ELSE 0

\* first position >= from holding one of the delimiters, Len(s) + 1 when none
FirstOf(s, delims, from) ==
    LET hits == {i \in from..Len(s) : CharAt(s, i) \in delims}
    IN  IF hits = {} THEN Len(s) + 1 ELSE CHOOSE i \in hits : \A j \in hits : i <= j

\* what follows "//netloc" when the text starts with "//"
AfterNetloc(rest) ==
    IF StrUpto(rest, 2) = "//" THEN StrFrom(rest, FirstOf(rest, {"/", "?", "#"}, 3)) ELSE rest

\* urlparse splits ";params" off the last path segment
SplitParams(path) ==
    LET i == FindFrom(path, ";", RFind(path, "/") + 1)
    IN  IF i = 0 THEN path ELSE StrUpto(path, i - 1)

UrlPath(url) ==
    LET rest   == AfterNetloc(StrFrom(url, SchemeEnd(url) + 1))
        noFrag == StrUpto(rest, FirstOf(rest, {"#"}, 1) - 1)
        noQry  == StrUpto(noFrag, FirstOf(noFrag, {"?"}, 1) - 1)
    IN  SplitParams(noQry)

(***************************************************************************)
(* os.path.splitext(p)[1] (posixpath): the extension starts at the last    *)
(* dot of the last component, leading dots of that component not counting  *)
(***************************************************************************)
SplitExt(p) ==
    LET sepIndex == RFind(p, "/")
        dotIndex == RFind(p, ".")
    IN  IF /\ dotIndex > sepIndex
           /\ \E k \in (sepIndex + 1)..(dotIndex - 1) : CharAt(p, k) # "."
        THEN StrFrom(p, dotIndex) ELSE ""

(***************************************************************************)
(* pathlib.PurePath: name, suffix, with_suffix, parent                     *)
(***************************************************************************)
PathName(p) == StrFrom(p, RFind(p, "/") + 1)

PathParent(p) ==
    LET i == RFind(p, "/")
    IN  IF i = 0 THEN "." ELSE IF i = 1 THEN "/" ELSE StrUpto(p, i - 1)

PathSuffix(p) ==
    LET name == PathName(p)
        i    == RFind(name, ".")
    IN  IF 1 < i /\ i < Len(name) THEN StrFrom(name, i) ELSE ""

WithSuffix(p, suffix) == StrUpto(p, Len(p) - Len(PathSuffix(p))) \o suffix

(***************************************************************************)
(* detect_extension                                                        *)
(***************************************************************************)
ImageSuffixes == {".jpg", ".jpeg", ".png", ".gif", ".webp"}

UrlExtension(url) ==
    LET path == UrlPath(url)
    IN  IF Contains(path, ".") THEN Lower(SplitExt(path)) ELSE ""

ContentTypeExtension(content_type) ==
    LET ct == Lower(content_type)
    IN  IF Contains(ct, "jpeg") \/ Contains(ct, "jpg") THEN ".jpg"
        ELSE IF Contains(ct, "png") THEN ".png"
        ELSE IF Contains(ct, "gif") THEN ".gif"
        ELSE IF Contains(ct, "webp") THEN ".webp"
        ELSE ""

\* variant: the content type consulted before the URL
detect_extension_content_first(url, content_type) ==
    IF ~Falsy(content_type) /\ ContentTypeExtension(content_type) # ""
    THEN ContentTypeExtension(content_type)
    ELSE IF UrlExtension(url) \in ImageSuffixes THEN UrlExtension(url)
    ELSE ".jpg"

detect_extension(url, content_type) ==
    IF UrlExtension(url) \in ImageSuffixes THEN UrlExtension(url)
    ELSE IF ~Falsy(content_type) /\ ContentTypeExtension(content_type) # ""
         THEN ContentTypeExtension(content_type)
    ELSE ".jpg"

(***************************************************************************)
(* JSON values as the adapters read them: a tag t and a payload v.         *)
(* JNone is Python None: JSON null, or dict.get of a key that is absent.   *)
(***************************************************************************)
JNone == [t |-> "none", v |-> ""]

JStr(s) == [t |-> "str", v |-> s]

JList(l) == [t |-> "list", v |-> l]

JDict(f) == [t |-> "dict", v |-> f]

\* a body that is not JSON (image bytes, an HTML error page)
Bytes(b) == [t |-> "bytes", v |-> b]

\* dict.get(k) and dict.get(k, default)
JGetOr(d, k, default) == IF k \in DOMAIN d.v THEN d.v[k] ELSE default

JGet(d, k) == JGetOr(d, k, JNone)

\* truthiness of a JSON value: None, "", [] and {} are falsy
JTruthy(x) ==
    CASE x.t = "none" -> FALSE
      [] x.t = "str"  -> x.v # ""
      [] x.t = "list" -> Len(x.v) > 0
      [] x.t = "dict" -> DOMAIN x.v # {}
      [] OTHER        -> TRUE

\* a or b
JOr(a, b) == IF JTruthy(a) THEN a ELSE b

\* f"{x}" of None or a string
PyStr(x) == IF x.t = "none" THEN "None" ELSE x.v

(***************************************************************************)
(* Exceptions and the outcome of an adapter's look at the provider's JSON  *)
(***************************************************************************)
NoExc == [type |-> None, msg |-> "", at |-> 0, pc |-> ""]

Exc(type, msg) == [type |-> type, msg |-> msg]

Found(url) == [ok |-> TRUE, url |-> url, exc |-> Exc(None, "")]

Fails(type, msg) == [ok |-> FALSE, url |-> "", exc |-> Exc(type, msg)]

\* download_bing, lines 139-143
BingImageUrl(data) ==
    LET images == JGet(data, "images")
    IN  IF ~JTruthy(images) THEN Fails("Exception", "No images found in Bing response")
        ELSE IF "urlbase" \notin DOMAIN images.v[1].v THEN Fails("KeyError", "urlbase")
        ELSE Found("https://www.bing.com" \o images.v[1].v["urlbase"].v \o "_1920x1080.jpg")

\* download_nasa: the media-type test of line 161
NasaIsImage(data) ==
    LET media == JGet(data, "media_type")
    IN  media.t = "str" /\ media.v = "image"

\* variant: the regular URL preferred to the HD one
NasaPickUrlFirst(data) == JOr(JGet(data, "url"), JGet(data, "hdurl"))

\* download_nasa: img_url = data.get('hdurl') or data.get('url'), line 165
NasaPick(data) == JOr(JGet(data, "hdurl"), JGet(data, "url"))

\* download_nasa, lines 161-167
NasaImageUrl(data) ==
    IF ~NasaIsImage(data)
    THEN Fails("Exception",
               "Today's APOD is not an image, it's a " \o PyStr(JGet(data, "media_type")))
    ELSE IF ~JTruthy(NasaPick(data))
    THEN Fails("Exception", "No image URL found in NASA APOD response")
    ELSE Found(NasaPick(data).v)

\* download_wikipedia, lines 196-203
WikipediaImageUrl(data) ==
    LET potd  == JGet(data, "image")
        inner == JGetOr(potd, "image", JDict(<<>>))
    IN  IF ~JTruthy(potd)
        THEN Fails("Exception", "No Picture of the Day found in Wikipedia response")
        ELSE IF inner.t # "dict"
        THEN Fails("AttributeError", "'NoneType' object has no attribute 'get'")
        ELSE IF ~JTruthy(JGet(inner, "source"))
        THEN Fails("Exception", "No image URL found in Wikipedia Picture of the Day")
        ELSE Found(JGet(inner, "source").v)

\* variant: the `if not img_url` test left out
UnsplashImageUrlUnchecked(data) ==
    LET urls == JGetOr(data, "urls", JDict(<<>>))
    IN  IF urls.t # "dict"
        THEN Fails("AttributeError", "'NoneType' object has no attribute 'get'")
        ELSE Found(JOr(JGet(urls, "full"), JGet(urls, "regular")).v)

\* download_unsplash, lines 248-250
UnsplashImageUrl(data) ==
    LET urls == JGetOr(data, "urls", JDict(<<>>))
    IN  IF urls.t # "dict"
        THEN Fails("AttributeError", "'NoneType' object has no attribute 'get'")
        ELSE IF ~JTruthy(JOr(JGet(urls, "full"), JGet(urls, "regular")))
        THEN Fails("Exception", "No image URL found in Unsplash response")
        ELSE Found(JOr(JGet(urls, "full"), JGet(urls, "regular")).v)

(***************************************************************************)
(* Requests the program builds                                             *)
(***************************************************************************)
\* retry_request's default max_retries
DefaultMaxRetries == 3

\* headers and params are sets of <<name, value>> pairs; None (no headers) is {}
NoHeaders == {}

BingApi == "https://www.bing.com/HPImageArchive.aspx?format=js&idx=0&n=1&mkt=en-US"

NasaApi(api_key) == "https://api.nasa.gov/planetary/apod?api_key=" \o api_key

\* f"{n:02d}"
Pad2(n) == IF n < 10 THEN "0" \o ToString(n) ELSE ToString(n)

WikipediaApi(now) ==
    "https://en.wikipedia.org/api/rest_v1/feed/featured/"
        \o ToString(now[1]) \o "/" \o Pad2(now[2]) \o "/" \o Pad2(now[3])

WikipediaHeaders ==
    {<<"User-Agent",
       "any-photo-of-the-day/1.0 (https://github.com/yourusername/any-photo-of-the-day)">>}

UnsplashApi == "https://api.unsplash.com/photos/random"

UnsplashHeaders(api_key) == {<<"Authorization", "Client-ID " \o api_key>>}

UnsplashParams(topic, query) ==
    {<<"orientation", "landscape">>}
        \cup (IF Falsy(topic) THEN {} ELSE {<<"topics", topic>>})
        \cup (IF Falsy(query) THEN {} ELSE {<<"query", query>>})

Request(url, max_retries, headers, params) ==
    [url |-> url, max_retries |-> max_retries, headers |-> headers, params |-> params]

NoRequest == Request("", 0, NoHeaders, {})

(***************************************************************************)
(* retry_request's loop tests and backoff                                  *)
(***************************************************************************)
\* variant: the loop bound taken inclusively
LoopContinuesInclusive(a, max_retries) == a <= max_retries

\* for attempt in range(max_retries)
LoopContinues(a, max_retries) == a < max_retries

\* variant: the final attempt recognised one iteration late
IsFinalAttemptLate(a, max_retries) == a = max_retries

\* if attempt == max_retries - 1: raise
IsFinalAttempt(a, max_retries) == a = max_retries - 1

\* variant: linear instead of exponential backoff
BackoffLinear(a) == 2 * a

\* time.sleep(2 ** attempt)
Backoff(a) == 2 ^ a

(***************************************************************************)
(* The environment: what the servers, the clock and the user may do        *)
(***************************************************************************)
\* largest max_retries tried when retry_request is called on its own
MaxRetriesBound == 4

\* requests.get raises (transport), or raise_for_status raises (error status)
FailureKinds == {"ConnectionError", "HTTPError"}

Obj1(k, x) == JDict([key \in {k} |-> x])

\* f @@ g for records with disjoint fields
Merge(f, g) == [k \in DOMAIN f \cup DOMAIN g |-> IF k \in DOMAIN f THEN f[k] ELSE g[k]]

\* a field that is absent, or present with each of the values
Optional(k, vals) == <<<<>>>> \o [i \in 1..Len(vals) |-> [key \in {k} |-> JStr(vals[i])]]

\* what is not JSON at all
NotJson == Bytes("<html>")

BingBodies ==
    << NotJson,
       JDict(<<>>),
       Obj1("images", JList(<<>>)),
       Obj1("images", JList(<<JDict([title |-> JStr("T")])>>)),
       Obj1("images", JList(<<JDict([urlbase |-> JStr("/th?id=OHR.Test"), title |-> JStr("T"),
                                     copyright |-> JStr("C")])>>)) >>

NasaHd == "https://apod.nasa.gov/apod/image/2401/Moon_hd.JPG"

NasaSd == "https://apod.nasa.gov/apod/image/2401/Moon.png"

\* every combination of media_type, hdurl and url being absent or present
NasaBodies ==
    LET m == Optional("media_type", <<"image", "video">>)
        h == Optional("hdurl", <<"", NasaHd>>)
        u == Optional("url", <<"", NasaSd>>)
    IN  <<NotJson>> \o
        [i \in 1..27 |->
            JDict(Merge(Merge(m[((i - 1) \div 9) + 1], h[(((i - 1) \div 3) % 3) + 1]),
                        u[((i - 1) % 3) + 1]))]

WikiSource == "https://upload.wikimedia.org/wikipedia/commons/a/a1/Heron.jpeg"

WikipediaBodies ==
    << NotJson,
       JDict(<<>>),
       Obj1("image", JNone),
       Obj1("image", JDict(<<>>)),
       Obj1("image", JDict([title |-> JStr("T")])),
       Obj1("image", Obj1("image", JNone)),
       Obj1("image", Obj1("image", JDict(<<>>))),
       Obj1("image", Obj1("image", Obj1("source", JStr("")))),
       Obj1("image", Obj1("image", Obj1("source", JStr(WikiSource)))) >>

UnsplashFull == "https://images.unsplash.com/photo-1?fm=jpg&q=85"

UnsplashRegular == "https://images.unsplash.com/photo-1?fm=jpg&w=1080"

UnsplashBodies ==
    LET f == Optional("full", <<"", UnsplashFull>>)
        r == Optional("regular", <<UnsplashRegular>>)
    IN  <<NotJson, JDict(<<>>), Obj1("urls", JNone)>> \o
        [i \in 1..6 |-> Obj1("urls", JDict(Merge(f[((i - 1) \div 2) + 1], r[((i - 1) % 2) + 1])))]

\* the Content-Type header of an image response; None: the header is absent
ImageContentTypes == {None, "image/png", "image/jpeg", "IMAGE/GIF", "image/webp", "text/html"}

StartsWith(s, pre) == Len(pre) <= Len(s) /\ StrUpto(s, Len(pre)) = pre

IsApi(url) ==
    \/ url = BingApi
    \/ StartsWith(url, "https://api.nasa.gov/")
    \/ StartsWith(url, "https://en.wikipedia.org/api/")
    \/ url = UnsplashApi

\* the bodies a server may send with a success status to a GET of url
Bodies(url) ==
    IF url = BingApi THEN BingBodies
    ELSE IF StartsWith(url, "https://api.nasa.gov/") THEN NasaBodies
    ELSE IF StartsWith(url, "https://en.wikipedia.org/api/") THEN WikipediaBodies
    ELSE IF url = UnsplashApi THEN UnsplashBodies
    ELSE <<Bytes("IMG")>>

ContentTypes(url) == IF IsApi(url) THEN {"application/json"} ELSE ImageContentTypes

NoResponse == [at |-> 0, content_type |-> None, body |-> JNone]

\* response.headers.get('Content-Type', '')
ContentTypeHeader(resp) == IF resp.content_type = None THEN "" ELSE resp.content_type

(***************************************************************************)
(* State                                                                   *)
(***************************************************************************)
VARIABLES
    entry,      \* the function the run starts in
    args,       \* its arguments (for main: the parsed command line)
    now,        \* datetime.now() as <<year, month, day>>
    pc,         \* the statement about to run
    stack,      \* where the pending retry_request call returns to
    req,        \* the arguments of the retry_request call in progress
    attempt,    \* its loop variable
    log,        \* GETs issued, failures seen and sleeps taken, in order
    response,   \* the last response retry_request returned
    data,       \* the provider's JSON, once parsed
    save,       \* the arguments download_and_save was called with
    target,     \* download_and_save's target path, after suffix correction
    fs,         \* the files opened for writing: path and how much was written
    dirs,       \* directories mkdir(parents=True) was asked to make
    out,        \* lines printed on stdout
    err,        \* lines printed on stderr
    exc,        \* the exception being handled or propagated, if any
    result,     \* what the entry function returned
    exitCode    \* the process exit code; None while running

vars == <<entry, args, now, pc, stack, req, attempt, log, response, data, save, target,
          fs, dirs, out, err, exc, result, exitCode>>

NoSave == [url |-> None, target_path |-> None, headers |-> NoHeaders]

\* one entry of the log: a GET issued ("get"), its outcome ("ok" with the
\* response, "fail" with the kind of exception) or a backoff sleep ("sleep")
Event(ev, a, secs, kind, r, resp) ==
    [ev |-> ev, attempt |-> a, secs |-> secs, err |-> kind, req |-> r, resp |-> resp]

Gets(l) == {i \in 1..Len(l) : l[i].ev = "get"}

Today == {<<2024, 1, 5>>, <<2025, 12, 31>>}

Idle ==
    /\ stack = <<>>
    /\ attempt = 0
    /\ log = <<>>
    /\ response = NoResponse
    /\ data = JNone
    /\ target = None
    /\ fs = {}
    /\ dirs = {}
    /\ out = <<>>
    /\ err = <<>>
    /\ exc = NoExc
    /\ result = None
    /\ exitCode = None

(***************************************************************************)
(* Inputs                                                                  *)
(***************************************************************************)
CliTargets == {"out.jpg", "photo"}

MainArgs ==
    [source : {"bing", "wikipedia"}, target : CliTargets, api_key : {"DEMO_KEY"},
     unsplash_api_key : {None}, topic : {None}, query : {None}]
      \cup [source : {"nasa"}, target : CliTargets, api_key : {"DEMO_KEY", "K7"},
            unsplash_api_key : {None}, topic : {None}, query : {None}]
      \cup [source : {"unsplash"}, target : CliTargets, api_key : {"DEMO_KEY"},
            unsplash_api_key : {None, "", "UKEY"}, topic : {None, "nature"},
            query : {None, "mountain sunset"}]

RetryUrls == {"https://example.com/a.png"}

DetectUrls ==
    { base \o ext \o tail :
        base \in {"https://h.io/d/pic", "https://h.io/d/", "https://h.io/d/..",
                  "https://h.io/d.png/pic", "pic", "https://h.io"},
        ext  \in {"", ".png", ".PNG", ".jpg", ".Jpeg", ".gif", ".webp", ".txt",
                  ".png.bak", ".tar.gif"},
        tail \in {"", "?f=x.gif", "#a.webp", ";v=1.jpg", "/"} }

DetectContentTypes ==
    {None, "", "image/jpeg", "image/jpg", "Image/PNG", "image/gif", "image/webp",
     "text/html", "image/png+gif", "image/webp;x=jpg"}

SaveUrls ==
    {"https://h.io/pic", "https://h.io/pic.jpg", "https://h.io/pic.GIF",
     "https://h.io/.png", "https://h.io/pic.txt?x=a.png"}

SaveTargets ==
    {"photo", "photo.png", "photo.PNG", "out/photo.jpeg", "d.x/photo", "photo.txt",
     ".png", "a/b/photo.tar.gz", "photo.webp"}

InitMain ==
    /\ entry = "main"
    /\ args \in MainArgs
    /\ now \in (IF args.source = "wikipedia" THEN Today ELSE {<<2024, 1, 5>>})
    /\ pc = "main"
    /\ save = NoSave
    /\ req = NoRequest
    /\ Idle

InitRetry ==
    /\ entry = "retry_request"
    /\ args \in [url : RetryUrls, max_retries : (0 - 1)..MaxRetriesBound,
                 headers : {NoHeaders}, params : {{}}]
    /\ now = <<2024, 1, 5>>
    /\ pc = "retry_loop"
    /\ save = NoSave
    /\ req = args
    /\ Idle

InitDetect ==
    /\ entry = "detect_extension"
    /\ args \in [url : DetectUrls, content_type : DetectContentTypes]
    /\ now = <<2024, 1, 5>>
    /\ pc = "detect"
    /\ save = NoSave
    /\ req = NoRequest
    /\ Idle

InitSave ==
    /\ entry = "download_and_save"
    /\ args \in [url : SaveUrls, target_path : SaveTargets, headers : {NoHeaders}]
    /\ now = <<2024, 1, 5>>
    /\ pc = "save_fetch"
    /\ save = args
    /\ req = NoRequest
    /\ Idle

(***************************************************************************)
(* Control transfers                                                       *)
(***************************************************************************)
Thrown(e, at) == [type |-> e.type, msg |-> e.msg, at |-> at, pc |-> pc]

\* an exception leaves every frame up to main's handlers, or the entry function
Raise(e, at) ==
    /\ exc' = Thrown(e, at)
    /\ pc' = IF entry = "main" THEN "main_except" ELSE "raised"
    /\ stack' = <<>>

\* result = retry_request(url, headers=..., params=...); continue at ret
CallRetry(request, ret) ==
    /\ req' = request
    /\ attempt' = 0
    /\ stack' = <<ret>> \o stack
    /\ pc' = "retry_loop"

(***************************************************************************)
(* retry_request                                                           *)
(***************************************************************************)
RetryLoop ==
    /\ pc = "retry_loop"
    /\ IF LoopContinues(attempt, req.max_retries)
       THEN pc' = "retry_get" /\ UNCHANGED <<exc, stack>>
       ELSE Raise(Exc("RequestException", "Max retries exceeded"), 0)
    /\ UNCHANGED <<entry, args, now, req, attempt, log, response, data, save, target,
                   fs, dirs, out, err, result, exitCode>>

\* what one GET may come to: an exception of either kind, or a response with one
\* of the content types and bodies the server may send
Outcomes(url) ==
    [ok : {FALSE}, kind : FailureKinds, content_type : {None}, body : {1}]
      \cup [ok : {TRUE}, kind : {None}, content_type : ContentTypes(url),
            body : 1..Len(Bodies(url))]

RetryGet ==
    /\ pc = "retry_get"
    /\ \E o \in Outcomes(req.url) :
         LET n   == Cardinality(Gets(log)) + 1
             get == Event("get", attempt, 0, None, req, NoResponse)
             r   == [at |-> n, content_type |-> o.content_type,
                     body |-> Bodies(req.url)[o.body]]
         IN  IF o.ok
             THEN /\ log' = log \o <<get, Event("ok", attempt, 0, None, req, r)>>
                  /\ response' = r
                  /\ IF stack = <<>>
                     THEN pc' = "returned" /\ result' = response' /\ stack' = stack
                     ELSE pc' = Head(stack) /\ stack' = Tail(stack) /\ result' = result
                  /\ exc' = exc
             ELSE /\ log' = log \o <<get, Event("fail", attempt, 0, o.kind, req, NoResponse)>>
                  /\ IF IsFinalAttempt(attempt, req.max_retries)
                     THEN Raise(Exc(o.kind, ""), n)
                     ELSE /\ exc' = Thrown(Exc(o.kind, ""), n)
                          /\ pc' = "retry_sleep"
                          /\ stack' = stack
                  /\ UNCHANGED <<response, result>>
    /\ UNCHANGED <<entry, args, now, req, attempt, data, save, target, fs, dirs, out,
                   err, exitCode>>

\* the rest of the except clause: the sleep, after which the caught exception
\* is dropped and the loop goes on
RetrySleep ==
    /\ pc = "retry_sleep"
    /\ log' = Append(log, Event("sleep", attempt, Backoff(attempt), None, req, NoResponse))
    /\ exc' = NoExc
    /\ attempt' = attempt + 1
    /\ pc' = "retry_loop"
    /\ UNCHANGED <<entry, args, now, stack, req, response, data, save, target, fs, dirs,
                   out, err, result, exitCode>>

(***************************************************************************)
(* detect_extension called on its own                                      *)
(***************************************************************************)
Detect ==
    /\ pc = "detect"
    /\ result' = detect_extension(args.url, args.content_type)
    /\ pc' = "returned"
    /\ UNCHANGED <<entry, args, now, stack, req, attempt, log, response, data, save,
                   target, fs, dirs, out, err, exc, exitCode>>

(***************************************************************************)
(* download_and_save                                                       *)
(***************************************************************************)
\* variant: the suffix compared without lower()
NeedsExtensionCaseSensitive(target_path) ==
    PathSuffix(target_path) = "" \/ PathSuffix(target_path) \notin ImageSuffixes

\* not target.suffix or target.suffix.lower() not in [...] (line 115)
NeedsExtension(target_path) ==
    PathSuffix(target_path) = "" \/ Lower(PathSuffix(target_path)) \notin ImageSuffixes

\* lines 114-118: the path the image is written to
ResolveTarget(target_path, url, resp) ==
    IF NeedsExtension(target_path)
    THEN WithSuffix(target_path, detect_extension(url, ContentTypeHeader(resp)))
    ELSE target_path

File(path, content) == [path |-> path, content |-> content]

SaveFetch ==
    /\ pc = "save_fetch"
    /\ CallRetry(Request(save.url, DefaultMaxRetries, save.headers, {}), "save_resolve")
    /\ UNCHANGED <<entry, args, now, log, response, data, save, target, fs, dirs, out,
                   err, exc, result, exitCode>>

SaveResolve ==
    /\ pc = "save_resolve"
    /\ target' = ResolveTarget(save.target_path, save.url, response)
    /\ pc' = "save_mkdir"
    /\ UNCHANGED <<entry, args, now, stack, req, attempt, log, response, data, save, fs,
                   dirs, out, err, exc, result, exitCode>>

\* target.parent.mkdir(parents=True, exist_ok=True): done, or OSError
SaveMkdir ==
    /\ pc = "save_mkdir"
    /\ \E ok \in BOOLEAN :
         IF ok
         THEN /\ dirs' = dirs \cup {PathParent(target)}
              /\ pc' = "save_open"
              /\ UNCHANGED <<exc, stack>>
         ELSE /\ Raise(Exc("OSError", "mkdir"), 0)
              /\ dirs' = dirs
    /\ UNCHANGED <<entry, args, now, req, attempt, log, response, data, save, target, fs,
                   out, err, result, exitCode>>

\* open(target, 'wb'): creates or truncates the file, or OSError
SaveOpen ==
    /\ pc = "save_open"
    /\ \E ok \in BOOLEAN :
         IF ok
         THEN /\ fs' = {File(target, "empty")}
              /\ pc' = "save_write"
              /\ UNCHANGED <<exc, stack>>
         ELSE /\ Raise(Exc("OSError", "open"), 0)
              /\ fs' = fs
    /\ UNCHANGED <<entry, args, now, req, attempt, log, response, data, save, target,
                   dirs, out, err, result, exitCode>>

\* f.write(response.content) and the close: all written, or OSError part-way
SaveWrite ==
    /\ pc = "save_write"
    /\ \E ok \in BOOLEAN :
         IF ok
         THEN /\ fs' = {File(target, "full")}
              /\ pc' = "save_print"
              /\ UNCHANGED <<exc, stack>>
         ELSE /\ Raise(Exc("OSError", "write"), 0)
              /\ fs' = {File(target, "partial")}
    /\ UNCHANGED <<entry, args, now, req, attempt, log, response, data, save, target,
                   dirs, out, err, result, exitCode>>

SuccessLine(path) == "Successfully downloaded to: " \o path

SavePrint ==
    /\ pc = "save_print"
    /\ out' = Append(out, SuccessLine(target))
    /\ pc' = "save_return"
    /\ UNCHANGED <<entry, args, now, stack, req, attempt, log, response, data, save,
                   target, fs, dirs, err, exc, result, exitCode>>

\* download_and_save returns; under main the adapter returns too and the
\* process ends with exit code 0
SaveReturn ==
    /\ pc = "save_return"
    /\ IF entry = "main"
       THEN pc' = "exit" /\ exitCode' = 0
       ELSE pc' = "returned" /\ exitCode' = exitCode
    /\ UNCHANGED <<entry, args, now, stack, req, attempt, log, response, data, save,
                   target, fs, dirs, out, err, exc, result>>

(***************************************************************************)
(* The provider adapters                                                   *)
(***************************************************************************)
\* data = response.json(), the adapter's extraction, then
\* download_and_save(img_url, target, headers)
ParseAndSave(found, headers) ==
    /\ IF response.body.t # "dict"
       THEN /\ Raise(Exc("JSONDecodeError", "Expecting value"), 0)
            /\ UNCHANGED <<data, save>>
       ELSE /\ data' = response.body
            /\ IF found.ok
               THEN /\ save' = [url |-> found.url, target_path |-> args.target,
                                headers |-> headers]
                    /\ pc' = "save_fetch"
                    /\ UNCHANGED <<exc, stack>>
               ELSE /\ Raise(found.exc, 0)
                    /\ save' = save
    /\ UNCHANGED <<entry, args, now, req, attempt, log, response, target, fs, dirs, out,
                   err, result, exitCode>>

Fetch(request, ret) ==
    /\ CallRetry(request, ret)
    /\ UNCHANGED <<entry, args, now, log, response, data, save, target, fs, dirs, out,
                   err, exc, result, exitCode>>

BingFetch ==
    /\ pc = "bing"
    /\ Fetch(Request(BingApi, DefaultMaxRetries, NoHeaders, {}), "bing_parse")

\* the headers download_bing hands to download_and_save: none
BingSaveHeaders == NoHeaders

BingParse ==
    /\ pc = "bing_parse"
    /\ ParseAndSave(BingImageUrl(response.body), BingSaveHeaders)

NasaFetch ==
    /\ pc = "nasa"
    /\ Fetch(Request(NasaApi(args.api_key), DefaultMaxRetries, NoHeaders, {}), "nasa_parse")

NasaSaveHeaders == NoHeaders

NasaParse ==
    /\ pc = "nasa_parse"
    /\ ParseAndSave(NasaImageUrl(response.body), NasaSaveHeaders)

WikipediaFetch ==
    /\ pc = "wikipedia"
    /\ Fetch(Request(WikipediaApi(now), DefaultMaxRetries, WikipediaHeaders, {}),
             "wikipedia_parse")

\* variant: the image fetched without the User-Agent header
WikipediaSaveNoHeaders == NoHeaders

\* download_and_save(img_url, target, headers=headers), line 215
WikipediaSaveHeaders == WikipediaHeaders

WikipediaParse ==
    /\ pc = "wikipedia_parse"
    /\ ParseAndSave(WikipediaImageUrl(response.body), WikipediaSaveHeaders)

UnsplashFetch ==
    /\ pc = "unsplash"
    /\ IF Falsy(args.unsplash_api_key)
       THEN /\ Raise(Exc("Exception",
                   "Unsplash API key is required. Get one at https://unsplash.com/developers"), 0)
            /\ UNCHANGED <<entry, args, now, req, attempt, log, response, data, save,
                           target, fs, dirs, out, err, result, exitCode>>
       ELSE Fetch(Request(UnsplashApi, DefaultMaxRetries,
                          UnsplashHeaders(args.unsplash_api_key),
                          UnsplashParams(args.topic, args.query)), "unsplash_parse")

\* download_and_save(img_url, target), line 255: no headers
UnsplashSaveHeaders(api_key) == NoHeaders

UnsplashParse ==
    /\ pc = "unsplash_parse"
    /\ ParseAndSave(UnsplashImageUrl(response.body), UnsplashSaveHeaders(args.unsplash_api_key))

(***************************************************************************)
(* main, from the try block on                                             *)
(***************************************************************************)
MissingKeyLines ==
    <<"Error: --unsplash-api-key is required for Unsplash source",
      "Get a free API key at: https://unsplash.com/developers">>

MainDispatch ==
    /\ pc = "main"
    /\ IF args.source = "unsplash" /\ Falsy(args.unsplash_api_key)
       THEN /\ err' = err \o MissingKeyLines
            /\ exitCode' = 1
            /\ pc' = "exit"
       ELSE /\ pc' = args.source
            /\ UNCHANGED <<err, exitCode>>
    /\ UNCHANGED <<entry, args, now, stack, req, attempt, log, response, data, save,
                   target, fs, dirs, out, exc, result>>

\* variant: the handler prints the error and forgets sys.exit(1)
MainExceptNoExit ==
    /\ pc = "main_except"
    /\ err' = Append(err, "Error: " \o exc.msg)
    /\ exitCode' = 0
    /\ pc' = "exit"
    /\ UNCHANGED <<entry, args, now, stack, req, attempt, log, response, data, save,
                   target, fs, dirs, out, exc, result>>

\* except Exception as e: print(f"Error: {e}", file=sys.stderr); sys.exit(1)
MainExcept ==
    /\ pc = "main_except"
    /\ err' = Append(err, "Error: " \o exc.msg)
    /\ exitCode' = 1
    /\ pc' = "exit"
    /\ UNCHANGED <<entry, args, now, stack, req, attempt, log, response, data, save,
                   target, fs, dirs, out, exc, result>>

\* Ctrl-C while the try block runs: KeyboardInterrupt, caught at line 337.
\* Arriving while the file is open it may leave any part of the write done.
Interrupt ==
    /\ entry = "main"
    /\ pc \notin {"main_except", "exit"}
    /\ exc' = Thrown(Exc("KeyboardInterrupt", ""), 0)
    /\ out' = Append(out, "\nCancelled by user")
    /\ exitCode' = 1
    /\ pc' = "exit"
    /\ stack' = <<>>
    /\ fs' \in (IF pc = "save_write" THEN {fs, {File(target, "partial")}} ELSE {fs})
    /\ UNCHANGED <<entry, args, now, req, attempt, log, response, data, save, target,
                   dirs, err, result>>

(***************************************************************************)
(* Specifications                                                          *)
(***************************************************************************)
retry_request == RetryLoop \/ RetryGet \/ RetrySleep

download_and_save ==
    \/ SaveFetch \/ SaveResolve \/ SaveMkdir \/ SaveOpen \/ SaveWrite \/ SavePrint
    \/ SaveReturn

download_bing == BingFetch \/ BingParse

download_nasa == NasaFetch \/ NasaParse

download_wikipedia == WikipediaFetch \/ WikipediaParse

download_unsplash == UnsplashFetch \/ UnsplashParse

main == MainDispatch \/ MainExcept \/ Interrupt

Next ==
    \/ main
    \/ download_bing \/ download_nasa \/ download_wikipedia \/ download_unsplash
    \/ download_and_save
    \/ retry_request

NextSave == download_and_save \/ retry_request

\* a run of the command line
Spec == InitMain /\ [][Next]_vars

\* retry_request called on its own, max_retries from -1 to MaxRetriesBound
SpecRetry == InitRetry /\ [][retry_request]_vars

\* detect_extension called on its own
SpecDetect == InitDetect /\ [][Detect]_vars

\* download_and_save called on its own
SpecSave == InitSave /\ [][NextSave]_vars

\* retry_request on its own, where the loop always takes its next step: a GET
\* ends within its timeout and a sleep ends
SpecRetryLive == SpecRetry /\ WF_vars(retry_request)

(***************************************************************************)
(* Vocabulary of the properties                                            *)
(***************************************************************************)
Evs(l, ev) == {i \in 1..Len(l) : l[i].ev = ev}

Count(l, ev) == Cardinality(Evs(l, ev))

Finished == pc \in {"returned", "raised"}

EndsWith(s, suf) ==
    /\ Len(suf) <= Len(s)
    /\ SubSeq(s, Len(s) - Len(suf) + 1, Len(s)) = suf

(***************************************************************************)
(* retry_request                                                           *)
(***************************************************************************)
\* C1: when the first N GETs fail (N <= max_retries - 1) and the next one
\* succeeds, the log is exactly N rounds of GET, failure, sleep of 2^i seconds
\* (i = 0..N-1) followed by the successful GET, so N+1 GETs and N sleeps, each
\* sleep between failure i and attempt i+1; and retry_request has returned the
\* response of the successful GET.
C1_RetrySuccess ==
    \A N \in 0..(args.max_retries - 1) :
        (Count(log, "fail") = N /\ Count(log, "ok") = 1)
        => /\ pc = "returned"
           /\ Count(log, "get") = N + 1
           /\ Count(log, "sleep") = N
           /\ Len(log) = 3 * N + 2
           /\ \A i \in 0..(N - 1) :
                /\ log[3 * i + 1].ev = "get" /\ log[3 * i + 1].attempt = i
                /\ log[3 * i + 2].ev = "fail"
                /\ log[3 * i + 3].ev = "sleep" /\ log[3 * i + 3].secs = 2 ^ i
           /\ log[3 * N + 1].ev = "get" /\ log[3 * N + 1].attempt = N
           /\ log[3 * N + 2].ev = "ok"
           /\ result = log[3 * N + 2].resp
           /\ result.at = N + 1

\* two failures, then the third and last permitted attempt succeeds
C1_Witness ==
    /\ pc = "returned"
    /\ args.max_retries = 3
    /\ Count(log, "fail") = 2
    /\ Count(log, "sleep") = 2

\* C2: when all max_retries (>= 1) GETs fail, exactly max_retries GETs were
\* issued and max_retries - 1 sleeps taken, none after the last failure; no
\* response is returned, and the exception that reaches the caller is the one
\* of the last attempt.
C2_RetryExhausted ==
    (args.max_retries >= 1 /\ Count(log, "fail") = args.max_retries)
    => /\ pc = "raised"
       /\ Count(log, "get") = args.max_retries
       /\ Count(log, "sleep") = args.max_retries - 1
       /\ Count(log, "ok") = 0
       /\ log[Len(log)].ev = "fail"
       /\ response.at = 0
       /\ exc.type = log[Len(log)].err
       /\ exc.at = args.max_retries

\* three attempts, all failed, the last one with an error status after
\* transport errors
C2_Witness ==
    /\ pc = "raised"
    /\ args.max_retries = 3
    /\ Count(log, "fail") = 3
    /\ log[2].err = "ConnectionError"
    /\ exc.type = "HTTPError"

C10_Safe ==
    /\ Count(log, "get") <= (IF args.max_retries > 0 THEN args.max_retries ELSE 0)
    /\ pc = "returned"
         => /\ Len(log) > 0
            /\ log[Len(log)].ev = "ok"
            /\ result = log[Len(log)].resp
    /\ args.max_retries <= 0
         => /\ log = <<>>
            /\ pc \in {"retry_loop", "raised"}
            /\ pc = "raised"
                 => exc.type = "RequestException" /\ exc.msg = "Max retries exceeded"

\* C10: retry_request issues at most max_retries GETs, returns only the response
\* of a GET that succeeded, and always ends, by returning or by raising; with
\* max_retries <= 0 it issues no GET, sleeps never and raises
\* RequestException("Max retries exceeded").
C10_RetryTerminates == [](C10_Safe) /\ <>[](Finished)

\* max_retries = 0: raised without a single GET
C10_Witness ==
    /\ pc = "raised"
    /\ args.max_retries = 0
    /\ log = <<>>
    /\ exc.msg = "Max retries exceeded"

(***************************************************************************)
(* detect_extension                                                        *)
(***************************************************************************)
\* the last component of a path: what follows its last slash
LastComponent(path) ==
    LET slashes == {i \in 1..Len(path) : CharAt(path, i) = "/"}
    IN  IF slashes = {} THEN path
        ELSE StrFrom(path, (CHOOSE i \in slashes : \A j \in slashes : j <= i) + 1)

\* the path ends in the suffix suf, whatever the letter case: its last component
\* is a name (something other than dots) followed by suf.  A dot-file such as
\* "/.png" is a name without a suffix.
EndsInSuffix(path, suf) ==
    LET name == LastComponent(path)
        stem == StrUpto(name, Len(name) - Len(suf))
    IN  /\ Len(name) > Len(suf)
        /\ Lower(StrFrom(name, Len(name) - Len(suf) + 1)) = suf
        /\ \E k \in 1..Len(stem) : CharAt(stem, k) # "."

RecognizedSuffixes == {".jpg", ".jpeg", ".png", ".gif", ".webp"}

HasRecognizedSuffix(path) == \E suf \in RecognizedSuffixes : EndsInSuffix(path, suf)

\* the content-type rules, tried in the order jpeg/jpg, png, gif, webp
ByContentType(content_type) ==
    LET has(word) == content_type # None /\ Contains(Lower(content_type), word)
    IN  CASE has("jpeg") \/ has("jpg") -> ".jpg"
          [] ~(has("jpeg") \/ has("jpg")) /\ has("png") -> ".png"
          [] ~(has("jpeg") \/ has("jpg") \/ has("png")) /\ has("gif") -> ".gif"
          [] ~(has("jpeg") \/ has("jpg") \/ has("png") \/ has("gif")) /\ has("webp") -> ".webp"
          [] OTHER -> ".jpg"

\* C3: detect_extension returns one of the five suffixes; when the URL path
\* ends in a recognized suffix, that suffix in lower case, whatever the content
\* type; otherwise what the content type gives (jpeg/jpg, png, gif, webp in
\* that order), and .jpg when that gives nothing.
C3_DetectExtension ==
    pc = "returned"
    => /\ result \in RecognizedSuffixes
       /\ \A suf \in RecognizedSuffixes :
            EndsInSuffix(UrlPath(args.url), suf) => result = suf
       /\ ~HasRecognizedSuffix(UrlPath(args.url)) => result = ByContentType(args.content_type)

\* a URL path ending in .PNG wins over a content type naming gif
C3_Witness ==
    /\ pc = "returned"
    /\ args.url = "https://h.io/d/pic.PNG?f=x.gif"
    /\ args.content_type = "image/gif"
    /\ result = ".png"

(***************************************************************************)
(* download_and_save: the suffix of the path written                       *)
(***************************************************************************)
\* the last component of the path has no dot after its first character
HasNoSuffix(path) ==
    \A i \in 2..Len(LastComponent(path)) : CharAt(LastComponent(path), i) # "."

\* C4 as stated: whatever the URL, a target without suffix and Content-Type
\* image/png give a path written that ends in .png; a target that ends in a
\* recognized suffix is written as it is.
C4_AnyUrlPng ==
    \A f \in fs :
        /\ (HasNoSuffix(save.target_path) /\ response.content_type = "image/png")
             => EndsWith(f.path, ".png")
        /\ HasRecognizedSuffix(save.target_path) => f.path = save.target_path

\* C4, amended: a target without suffix and Content-Type image/png give a path
\* written that ends in .png when the URL path ends in no recognized suffix, and
\* one that ends in the URL's suffix when it does; a target that ends in a
\* recognized suffix is written as it is, whatever the content type and the URL.
C4_SuffixCorrection ==
    \A f \in fs :
        /\ (/\ HasNoSuffix(save.target_path)
            /\ response.content_type = "image/png"
            /\ ~HasRecognizedSuffix(UrlPath(save.url)))
             => EndsWith(f.path, ".png")
        /\ \A suf \in RecognizedSuffixes :
             (HasNoSuffix(save.target_path) /\ EndsInSuffix(UrlPath(save.url), suf))
               => EndsWith(f.path, suf)
        /\ HasRecognizedSuffix(save.target_path) => f.path = save.target_path

\* "photo" fetched from a URL without suffix as image/png is written to photo.png
C4_Witness ==
    /\ fs = {File("photo.png", "full")}
    /\ save.target_path = "photo"
    /\ save.url = "https://h.io/pic"
    /\ response.content_type = "image/png"

(***************************************************************************)
(* The adapters and main                                                   *)
(***************************************************************************)
\* the image GETs: those sent to something other than a provider's API
ImageGets == {i \in Evs(log, "get") : ~IsApi(log[i].req.url)}

\* field k of the JSON object d is absent, null or empty
Absent(d, k) ==
    \/ k \notin DOMAIN d.v
    \/ d.v[k].t = "none"
    \/ d.v[k].t = "str" /\ d.v[k].v = ""
    \/ d.v[k].t = "list" /\ d.v[k].v = <<>>
    \/ d.v[k].t = "dict" /\ DOMAIN d.v[k].v = {}

\* the provider's JSON lacks the image URL the adapter looks for
LacksUrl(source, d) ==
    CASE source = "bing" -> Absent(d, "images")
      [] source = "nasa" -> Absent(d, "hdurl") /\ Absent(d, "url")
      [] source = "wikipedia" ->
            \/ Absent(d, "image")
            \/ Absent(d.v["image"], "image")
            \/ Absent(d.v["image"].v["image"], "source")
      [] source = "unsplash" ->
            \/ Absent(d, "urls")
            \/ Absent(d.v["urls"], "full") /\ Absent(d.v["urls"], "regular")

\* C5: download_and_save is only ever called with a non-empty URL; when the
\* provider's JSON lacks the image URL the adapter raises, and the run issues
\* no image GET and opens no file.
C5_SaveNeedsUrl ==
    /\ save.url # None => Len(save.url) > 0
    /\ (data.t = "dict" /\ LacksUrl(args.source, data))
         => /\ save.url = None
            /\ ImageGets = {}
            /\ fs = {}
            /\ pc \in {"main_except", "exit"}
            /\ exc.type \notin {None, "KeyboardInterrupt"}
            /\ exc.pc = args.source \o "_parse"

\* Unsplash answers with urls.full empty and no urls.regular: the run ends in
\* the error, nothing fetched or written
C5_Witness ==
    /\ args.source = "unsplash"
    /\ data.t = "dict"
    /\ "urls" \in DOMAIN data.v
    /\ data.v["urls"].t = "dict"
    /\ "full" \in DOMAIN data.v["urls"].v
    /\ pc = "exit"
    /\ exc.msg = "No image URL found in Unsplash response"
    /\ fs = {}

\* C6: with source unsplash and the key missing or empty, no GET is ever
\* issued and the process ends with exit code 1.
C6_UnsplashKeyFirst ==
    (args.source = "unsplash" /\ args.unsplash_api_key \in {None, ""})
    => /\ Count(log, "get") = 0
       /\ pc \in {"main", "exit"}
       /\ pc = "exit" => exitCode = 1

\* the empty key: refused by main with its two lines on stderr
C6_Witness ==
    /\ args.source = "unsplash"
    /\ args.unsplash_api_key = ""
    /\ pc = "exit"
    /\ exitCode = 1
    /\ err = MissingKeyLines
    /\ log = <<>>

FetchSucceeded(api) == \E i \in Evs(log, "ok") : IsApi(log[i].req.url) = api

SuccessPrinted ==
    \E i \in 1..Len(out) : StartsWith(out[i], "Successfully downloaded to: ")

FullSuccess ==
    /\ FetchSucceeded(TRUE)
    /\ FetchSucceeded(FALSE)
    /\ Cardinality(fs) = 1
    /\ \A f \in fs : f.content = "full"
    /\ SuccessPrinted
    /\ exitCode = 0

CleanFailure == exitCode = 1 /\ fs = {} /\ ~SuccessPrinted

SomethingFailed == exc.type # None \/ err # <<>>

\* every step above retry_request runs at most once: one metadata request and
\* one image request are started
NoRetryAbove ==
    \A api \in BOOLEAN :
        Cardinality({i \in Evs(log, "get") :
                        log[i].attempt = 0 /\ IsApi(log[i].req.url) = api}) <= 1

MidWriteInterrupt == exc.type = "KeyboardInterrupt" /\ exc.pc = "save_write"

\* C7 as stated: leaving aside a Ctrl-C in the middle of the write, a run ends
\* either as a full success (both fetches succeeded, one file written, success
\* line printed, exit code 0) or as a failure with exit code 1, no file and no
\* success line; every failure gives exit code 1 and nothing above
\* retry_request is retried.
C7_AllOrNothing ==
    (pc = "exit" /\ ~MidWriteInterrupt)
    => /\ FullSuccess \/ CleanFailure
       /\ SomethingFailed => exitCode = 1
       /\ NoRetryAbove

\* the failure struck once the target file was open
FailedAfterOpen == exc.pc \in {"save_write", "save_print", "save_return"}

\* C7, amended: a run ends with exit code 0 or 1; 0 only as a full success; 1
\* after every failure, with no file and no success line when the failure came
\* before the target file was opened; nothing above retry_request is retried.
C7_ExitOutcome ==
    pc = "exit"
    => /\ exitCode \in {0, 1}
       /\ exitCode = 0 => FullSuccess /\ ~SomethingFailed
       /\ SomethingFailed => exitCode = 1
       /\ (exitCode = 1 /\ ~FailedAfterOpen) => fs = {} /\ ~SuccessPrinted
       /\ NoRetryAbove

\* the metadata arrives, the image request fails three times: exit code 1 and
\* no file
C7_Witness ==
    /\ pc = "exit"
    /\ exitCode = 1
    /\ FetchSucceeded(TRUE)
    /\ exc.type = "HTTPError"
    /\ Cardinality(ImageGets) = 3
    /\ fs = {}

HeaderNames(headers) == {h[1] : h \in headers}

\* C8 as stated: when the metadata request carries headers, the image request
\* carries the same ones.
C8_SameHeaders ==
    \A i \in ImageGets : log[1].req.headers # {} => log[i].req.headers = log[1].req.headers

\* C8, amended: under wikipedia the metadata request and the image request both
\* carry the same User-Agent header; under unsplash the metadata request
\* carries the Authorization header and the image request no header at all.
C8_ImageHeaders ==
    \A i \in ImageGets :
        /\ args.source = "wikipedia"
             => /\ "User-Agent" \in HeaderNames(log[1].req.headers)
                /\ log[i].req.headers = log[1].req.headers
        /\ args.source = "unsplash"
             => /\ HeaderNames(log[1].req.headers) = {"Authorization"}
                /\ log[i].req.headers = {}

\* a wikipedia run that got as far as fetching the image
C8_Witness ==
    /\ args.source = "wikipedia"
    /\ pc = "exit"
    /\ ImageGets # {}
    /\ IsApi(log[1].req.url)

\* the value of field k of d when it is a non-empty string, "" otherwise
StrField(d, k) == IF Absent(d, k) THEN "" ELSE d.v[k].v

\* C9: an APOD answer whose media_type is not "image" makes download_nasa fail
\* with a message that names the media type, and nothing is saved; one whose
\* media_type is "image" is saved from hdurl when hdurl is present and not
\* empty, and from url otherwise.
C9_NasaSelection ==
    (args.source = "nasa" /\ data.t = "dict")
    => IF "media_type" \in DOMAIN data.v /\ data.v["media_type"].v = "image"
       THEN /\ (StrField(data, "hdurl") # "" \/ StrField(data, "url") # "") => save.url # None
            /\ save.url # None
                 => save.url = (IF StrField(data, "hdurl") # "" THEN StrField(data, "hdurl")
                                ELSE StrField(data, "url"))
       ELSE /\ save.url = None
            /\ ImageGets = {}
            /\ fs = {}
            /\ exc.msg = "Today's APOD is not an image, it's a "
                            \o (IF "media_type" \in DOMAIN data.v
                                THEN data.v["media_type"].v ELSE "None")

\* media_type image, hdurl present but empty: saved from url
C9_Witness ==
    /\ args.source = "nasa"
    /\ data.t = "dict"
    /\ "hdurl" \in DOMAIN data.v
    /\ save.url = NasaSd
    /\ pc = "exit"
    /\ exitCode = 0
====
